---- MODULE Spec2Model ----
(***************************************************************************)
(* Model of Resolver.Resolve (python/resolve.go): the translation of the   *)
(* imports of one generated rule into its "deps" attribute.                *)
(*                                                                         *)
(* Strings are sequences of one-character strings, so that splitting,      *)
(* joining, prefix tests, label formatting and the byte-wise ordering of   *)
(* the tree sets are computed as the Go code computes them.  The lines     *)
(* that the EXPLAIN_DEPENDENCY selector prints are left out: they change   *)
(* nothing that Resolve computes.                                          *)
(***************************************************************************)
EXTENDS Integers, Sequences, FiniteSets, TLC

\* ------------------------------------------------------------------ bounds

\* the largest number of dotted components of an imported module name
MaxParts == 2

\* ----------------------------------------------------------------- strings

\* the characters the model uses, in increasing byte order
Alphabet == <<" ", ",", ".", "/", ":", "@", "a", "b", "c", "i", "l", "n", "p", "t", "w", "x", "y", "z">>

ByteOrder == [ch \in {Alphabet[i] : i \in DOMAIN Alphabet} |->
                 CHOOSE i \in DOMAIN Alphabet : Alphabet[i] = ch]

Ord(ch) == ByteOrder[ch]

RECURSIVE StringComparator(_, _)
\* godsutils.StringComparator: byte-wise, a proper prefix sorts first
StringComparator(a, b) ==
    IF a = <<>> /\ b = <<>> THEN 0
    ELSE IF a = <<>> THEN -1
    ELSE IF b = <<>> THEN 1
    ELSE IF Ord(Head(a)) < Ord(Head(b)) THEN -1
    ELSE IF Ord(Head(a)) > Ord(Head(b)) THEN 1
    ELSE StringComparator(Tail(a), Tail(b))

\* strings.HasPrefix
HasPrefix(s, prefix) ==
    /\ Len(prefix) <= Len(s)
    /\ SubSeq(s, 1, Len(prefix)) = prefix

RECURSIVE Split(_, _)
\* strings.Split(s, sep) for a one-character separator
Split(s, sep) ==
    IF \A i \in DOMAIN s : s[i] # sep THEN <<s>>
    ELSE LET k == CHOOSE i \in DOMAIN s :
                      /\ s[i] = sep
                      /\ \A j \in 1..(i - 1) : s[j] # sep
         IN  <<SubSeq(s, 1, k - 1)>> \o Split(SubSeq(s, k + 1, Len(s)), sep)

RECURSIVE Join(_, _)
\* strings.Join(parts, sep)
Join(parts, sep) ==
    IF parts = <<>> THEN <<>>
    ELSE IF Len(parts) = 1 THEN parts[1]
    ELSE parts[1] \o sep \o Join(Tail(parts), sep)

\* path.Base for a clean slash-separated path
PathBase(p) ==
    IF p = <<>> THEN <<".">>
    ELSE LET parts == Split(p, "/") IN parts[Len(parts)]

\* ------------------------------------------------------------------ labels

Label(repo, pkg, name) == [Repo |-> repo, Pkg |-> pkg, Name |-> name, Relative |-> FALSE]

\* label.Label.Equal
LabelEqual(l, other) ==
    /\ l.Repo = other.Repo
    /\ l.Pkg = other.Pkg
    /\ l.Name = other.Name
    /\ l.Relative = other.Relative

\* label.Label.Rel(repo, pkg)
LabelRel(l, repo, pkg) ==
    IF l.Relative \/ l.Repo # repo THEN l
    ELSE IF l.Pkg = pkg THEN [Repo |-> <<>>, Pkg |-> <<>>, Name |-> l.Name, Relative |-> TRUE]
    ELSE [Repo |-> <<>>, Pkg |-> l.Pkg, Name |-> l.Name, Relative |-> FALSE]

\* label.Label.String
LabelString(l) ==
    IF l.Relative THEN <<":">> \o l.Name
    ELSE LET repo == IF l.Repo # <<>> /\ l.Repo # <<"@">> THEN <<"@">> \o l.Repo ELSE l.Repo
         IN  IF PathBase(l.Pkg) = l.Name
             THEN repo \o <<"/", "/">> \o l.Pkg
             ELSE repo \o <<"/", "/">> \o l.Pkg \o <<":">> \o l.Name

\* --------------------------------------------------------------- tree sets

RECURSIVE TreeSetAddTwice(_, _)
\* an Add that does not look for the value in the set
TreeSetAddTwice(set, v) ==
    IF set = <<>> THEN <<v>>
    ELSE IF StringComparator(v, Head(set)) <= 0 THEN <<v>> \o set
    ELSE <<Head(set)>> \o TreeSetAddTwice(Tail(set), v)

RECURSIVE TreeSetAdd(_, _)
\* treeset.Set.Add with godsutils.StringComparator: the set is kept as the
\* sequence its iterator yields
TreeSetAdd(set, v) ==
    IF set = <<>> THEN <<v>>
    ELSE LET c == StringComparator(v, Head(set))
         IN  IF c = 0 THEN set
             ELSE IF c < 0 THEN <<v>> \o set
             ELSE <<Head(set)>> \o TreeSetAdd(Tail(set), v)

RECURSIVE TreeSetAddAll(_, _)
TreeSetAddAll(set, values) ==
    IF values = <<>> THEN set
    ELSE TreeSetAddAll(TreeSetAdd(set, Head(values)), Tail(values))

Range(s) == {s[i] : i \in DOMAIN s}

\* ------------------------------------------------------- the pass's inputs

languageName == <<"p", "y">>

\* the components imported module names are made of
Components == <<"x", "y", "z", "w">>

\* the dotted name of the first n components: "x", "x.y", ...
ModuleName(n) == Join([i \in 1..n |-> <<Components[i]>>], <<".">>)

\* the strings the collaborators are asked about: every candidate
ModuleNames == {ModuleName(n) : n \in 1..MaxParts}

\* the names the sources import: a top-level module and the deepest one
ImportedNames == {ModuleName(1), ModuleName(MaxParts)}

\* the rule being resolved, //a:t, and the labels the collaborators answer with
SelfLabel == Label(<<>>, <<"a">>, <<"t">>)
LibA == Label(<<>>, <<"a">>, <<"l", "i", "b">>)
LibAB == Label(<<>>, <<"a", "b">>, <<"l", "i", "b">>)
LibB == Label(<<>>, <<"b">>, <<"l", "i", "b">>)
PipDep == LabelString(Label(<<"p", "i", "p">>, <<"n", "p">>, <<"n", "p">>))

NoOverride == [ok |-> FALSE, label |-> Label(<<>>, <<>>, <<>>)]
Override(l) == [ok |-> TRUE, label |-> l]
NoThirdParty == [ok |-> FALSE, dep |-> <<>>]
ThirdParty(d) == [ok |-> TRUE, dep |-> d]

\* what the collaborators hold for one import string: the gazelle:resolve
\* override, the manifest's mapping, the rule index's matches and the
\* standard-library classifier's answer
Answer(o, t, m, s) == [override |-> o, thirdParty |-> t, matches |-> m, std |-> s]

AnswersWithOverride ==
    {Answer(Override(l), ThirdParty(PipDep), <<LibA>>, "std") : l \in {SelfLabel, LibB}}

AnswersWithThirdParty ==
    {Answer(NoOverride, ThirdParty(PipDep), <<LibA>>, "std")}

IndexMatches ==
    {<<LibA>>, <<LibA, LibB>>, <<LibA, LibAB>>, <<LibAB, LibB>>, <<LibA, SelfLabel>>,
     <<LibA, LibB, SelfLabel>>}

AnswersWithMatches ==
    {Answer(NoOverride, NoThirdParty, m, "notstd") : m \in IndexMatches}

AnswersWithoutMatch ==
    {Answer(NoOverride, NoThirdParty, <<>>, s) : s \in {"std", "notstd", "error"}}

Answers ==
    AnswersWithOverride \cup AnswersWithThirdParty \cup AnswersWithMatches \cup AnswersWithoutMatch

\* a string that nothing knows
Unknown == Answer(NoOverride, NoThirdParty, <<>>, "notstd")

\* the strings that are candidates of the names found: a candidate of a name
\* is a prefix of it
Candidates(names) == {k \in ModuleNames : \E n \in names : HasPrefix(n, k)}

\* the project roots of the configuration of package a: the repository root
\* and the directory a itself
ProjectRoots == {<<>>, <<"a">>}

\* the values of the private attribute _gazelle_python_resolved_deps
ResolvedDepsValues ==
    {TreeSetAddAll(<<>>, values) :
        values \in {<<>>, <<<<":", "l", "i", "b">>, LabelString(LibB)>>, <<<<":", "t">>>>}}

\* the import statements of the rule's sources, in the order they were found
RECURSIVE Arrangements(_)
Arrangements(names) ==
    {<<>>} \cup UNION {{<<n>> \o rest : rest \in Arrangements(names \ {n})} : n \in names}

module(name, line) == [Name |-> name, LineNumber |-> line, Filepath |-> <<"t">>]

RECURSIVE ModuleSetAdd(_, _)
\* treeset.Set.Add under the comparator of modules, which orders them by Name
ModuleSetAdd(set, m) ==
    IF set = <<>> THEN <<m>>
    ELSE LET c == StringComparator(m.Name, Head(set).Name)
         IN  IF c = 0 THEN <<m>> \o Tail(set)
             ELSE IF c < 0 THEN <<m>> \o set
             ELSE <<Head(set)>> \o ModuleSetAdd(Tail(set), m)

RECURSIVE ModuleSet(_, _)
\* the tree set of the modules found, statement i being at line i
ModuleSet(found, line) ==
    IF found = <<>> THEN <<>>
    ELSE ModuleSetAdd(ModuleSet(Tail(found), line + 1), module(Head(found), line))

\* ------------------------------------------------------------------- state

VARIABLES
    from,             \* the label of the rule being resolved
    cfg,              \* the configuration of its package
    answers,          \* what the collaborators hold for each import string
    found,            \* the names imported, in the order they were found
    modulesRaw,       \* the imports argument: absent, or a tree set of modules
    r,                \* the rule: its private resolved deps and its deps attribute
    pc,               \* where Resolve is: "modules", "candidate", "done", "exited"
    it,               \* how many modules the iterator has yielded
    mod,              \* the module being resolved
    possibleModules,  \* its candidate names, most specific first
    ci,               \* the index of the candidate being tried
    errs,             \* the errors of the module being resolved
    deps,             \* the tree set of dependencies found
    hasFatalError,
    lookups,          \* the queries made to the collaborators, in order
    logged            \* the lines written to the log

vars == <<from, cfg, answers, found, modulesRaw, r, pc, it, mod, possibleModules, ci,
          errs, deps, hasFatalError, lookups, logged>>

inputs == <<from, cfg, answers, found, modulesRaw>>

NoModule == module(<<>>, 0)

Init ==
    /\ from = SelfLabel
    /\ cfg \in [pythonProjectRoot : ProjectRoots, validateImportStatements : BOOLEAN]
    /\ found \in Arrangements(ImportedNames)
    /\ answers \in [ModuleNames -> Answers]
    /\ \A k \in ModuleNames \ Candidates(Range(found)) : answers[k] = Unknown
    /\ modulesRaw \in {[present |-> FALSE, set |-> <<>>],
                       [present |-> TRUE, set |-> ModuleSet(found, 1)]}
    /\ (~modulesRaw.present => found = <<>>)
    /\ r \in [resolvedDeps : ResolvedDepsValues, hasDeps : {FALSE}, deps : {<<>>}]
    /\ pc = "modules"
    /\ it = 0
    /\ mod = NoModule
    /\ possibleModules = <<>>
    /\ ci = 0
    /\ errs = <<>>
    /\ deps = <<>>
    /\ hasFatalError = FALSE
    /\ lookups = <<>>
    /\ logged = <<>>

\* ----------------------------------------------------------- collaborators

\* resolve.FindRuleWithOverride: the gazelle:resolve directive for imp
FindRuleWithOverride(imp) == answers[imp.Imp].override

\* pythonconfig.Config.FindThirdPartyDependency
FindThirdPartyDependency(moduleName) == answers[moduleName].thirdParty

\* resolve.RuleIndex.FindRulesByImportWithConfig
FindRulesByImportWithConfig(imp) == answers[imp.Imp].matches

\* isStdModule: "std", "notstd", or "error" when the classifier fails
isStdModule(m) == answers[m.Name].std

\* resolve.FindResult.IsSelfImport; no rule of this language embeds another
IsSelfImport(match, l) == LabelEqual(match, l)

Query(kind, name) == [mod |-> mod.Name, kind |-> kind, name |-> name]

\* ------------------------------------------------------------------ Resolve

RECURSIVE possibleModulesLoopOffByOne(_, _)
\* the loop leaving the top-level component out
possibleModulesLoopOffByOne(moduleParts, possible) ==
    IF Len(moduleParts) > 2
    THEN LET rest == SubSeq(moduleParts, 1, Len(moduleParts) - 1)
         IN  possibleModulesLoopOffByOne(rest, Append(possible, Join(rest, <<".">>)))
    ELSE possible

RECURSIVE possibleModulesLoop(_, _)
\* lines 151-162: drop the last part and append the joined rest, until one
\* part is left
possibleModulesLoop(moduleParts, possible) ==
    IF Len(moduleParts) > 1
    THEN LET rest == SubSeq(moduleParts, 1, Len(moduleParts) - 1)
         IN  possibleModulesLoop(rest, Append(possible, Join(rest, <<".">>)))
    ELSE possible

\* lines 149-162
PossibleModules(name) == possibleModulesLoop(Split(name, "."), <<name>>)

\* the candidate, and what the loop body computes from it
moduleName == possibleModules[ci]
imp == [Lang |-> languageName, Imp |-> moduleName]
InCandidate == pc = "candidate" /\ ci <= Len(possibleModules)

\* lines 168-170: an override without a repository is in the rule's own
overrideOf(o) == IF o.label.Repo = <<>> THEN [o.label EXCEPT !.Repo = from.Repo] ELSE o.label

\* lines 172-175: the dependency an accepted override adds
overrideDep(override) ==
    LabelString(IF override.Repo = from.Repo THEN [override EXCEPT !.Repo = <<>>] ELSE override)

\* line 186
ThirdPartyFound == FindThirdPartyDependency(moduleName).ok
\* the manifest consulted before the directive
OverrideFoundAfterThirdParty == FindRuleWithOverride(imp).ok /\ ~ThirdPartyFound
\* line 167
OverrideFound == FindRuleWithOverride(imp).ok
\* line 171
OverrideAccepted == ~LabelEqual(overrideOf(FindRuleWithOverride(imp)), from)

matches == FindRulesByImportWithConfig(imp)

\* the classifier asked about the import's full name
stdModuleNameOfImport == mod.Name

\* line 199: the name the classifier is asked about
stdModuleName == moduleName

\* lines 229-234
sameRootMatches(filteredMatches) ==
    SelectSeq(filteredMatches, LAMBDA match : HasPrefix(match.Pkg, cfg.pythonProjectRoot))

\* lines 286-292
targetListFromResults(results) ==
    Join([i \in DOMAIN results |-> LabelString(results[i])], <<",", " ">>)

\* lines 206-212
invalidDependencyError ==
    [kind |-> "invalid", moduleName |-> moduleName, line |-> mod.LineNumber,
     file |-> mod.Filepath, targets |-> <<>>]

\* lines 236-239
multipleTargetsError(filteredMatches) ==
    [kind |-> "multiple", moduleName |-> moduleName, line |-> mod.LineNumber,
     file |-> mod.Filepath, targets |-> targetListFromResults(filteredMatches)]

\* lines 294-304
convertDependencySetToExpr(set) == [i \in DOMAIN set |-> [Value |-> set[i]]]

\* continue MODULES_LOOP
ContinueModulesLoop ==
    /\ pc' = "modules"
    /\ UNCHANGED <<it, mod, possibleModules, ci, errs>>

\* continue POSSIBLE_MODULE_LOOP, or the end of the loop body
NextPossibleModule ==
    /\ ci' = ci + 1
    /\ UNCHANGED <<pc, it, mod, possibleModules>>

\* lines 147-163: the iterator yields the next module
NextModule ==
    /\ pc = "modules"
    /\ modulesRaw.present
    /\ it < Len(modulesRaw.set)
    /\ it' = it + 1
    /\ mod' = modulesRaw.set[it + 1]
    /\ possibleModules' = PossibleModules(modulesRaw.set[it + 1].Name)
    /\ ci' = 1
    /\ errs' = <<>>
    /\ pc' = "candidate"
    /\ UNCHANGED <<inputs, r, deps, hasFatalError, lookups, logged>>

\* lines 167-183: an override to another rule is the dependency
OverrideDep ==
    /\ InCandidate
    /\ OverrideFound
    /\ OverrideAccepted
    /\ deps' = TreeSetAdd(deps, overrideDep(overrideOf(FindRuleWithOverride(imp))))
    /\ lookups' = lookups \o <<Query("override", moduleName)>>
    /\ ContinueModulesLoop
    /\ UNCHANGED <<inputs, r, hasFatalError, logged>>

\* lines 167-171, 184-185, 257: an override to the rule itself adds nothing
\* and the loop goes on with the next candidate
OverrideSelf ==
    /\ InCandidate
    /\ OverrideFound
    /\ ~OverrideAccepted
    /\ lookups' = lookups \o <<Query("override", moduleName)>>
    /\ NextPossibleModule
    /\ UNCHANGED <<inputs, r, errs, deps, hasFatalError, logged>>

\* lines 186-194
ThirdPartyDep ==
    /\ InCandidate
    /\ ~OverrideFound
    /\ ThirdPartyFound
    /\ deps' = TreeSetAdd(deps, FindThirdPartyDependency(moduleName).dep)
    /\ lookups' = lookups \o <<Query("override", moduleName), Query("thirdparty", moduleName)>>
    /\ ContinueModulesLoop
    /\ UNCHANGED <<inputs, r, hasFatalError, logged>>

\* the queries of a candidate that reaches the index, and the classifier
IndexQueries ==
    <<Query("override", moduleName), Query("thirdparty", moduleName), Query("index", moduleName)>>
StdQueries == IndexQueries \o <<Query("std", stdModuleName)>>

\* the classifier's failure recorded as an error of the import
StdModuleErrorDowngraded ==
    /\ InCandidate
    /\ ~OverrideFound
    /\ ~ThirdPartyFound
    /\ Len(matches) = 0
    /\ isStdModule([Name |-> stdModuleName]) = "error"
    /\ errs' = Append(errs, invalidDependencyError)
    /\ lookups' = lookups \o StdQueries
    /\ NextPossibleModule
    /\ UNCHANGED <<inputs, r, deps, hasFatalError, logged>>

\* lines 196-202: the classifier fails
StdModuleError ==
    /\ InCandidate
    /\ ~OverrideFound
    /\ ~ThirdPartyFound
    /\ Len(matches) = 0
    /\ isStdModule([Name |-> stdModuleName]) = "error"
    /\ logged' = Append(logged, [kind |-> "std", errs |-> <<>>])
    /\ hasFatalError' = TRUE
    /\ lookups' = lookups \o StdQueries
    /\ NextPossibleModule
    /\ UNCHANGED <<inputs, r, errs, deps>>

\* lines 196-204: a module of the standard library needs no dependency
StdModule ==
    /\ InCandidate
    /\ ~OverrideFound
    /\ ~ThirdPartyFound
    /\ Len(matches) = 0
    /\ isStdModule([Name |-> stdModuleName]) = "std"
    /\ lookups' = lookups \o StdQueries
    /\ ContinueModulesLoop
    /\ UNCHANGED <<inputs, r, deps, hasFatalError, logged>>

\* the import statement is not validated although validation is enabled
InvalidDependencyIgnored ==
    /\ InCandidate
    /\ ~OverrideFound
    /\ ~ThirdPartyFound
    /\ Len(matches) = 0
    /\ isStdModule([Name |-> stdModuleName]) = "notstd"
    /\ cfg.validateImportStatements
    /\ lookups' = lookups \o StdQueries
    /\ NextPossibleModule
    /\ UNCHANGED <<inputs, r, errs, deps, hasFatalError, logged>>

\* lines 196-214: nothing provides the candidate and imports are validated
InvalidDependency ==
    /\ InCandidate
    /\ ~OverrideFound
    /\ ~ThirdPartyFound
    /\ Len(matches) = 0
    /\ isStdModule([Name |-> stdModuleName]) = "notstd"
    /\ cfg.validateImportStatements
    /\ errs' = Append(errs, invalidDependencyError)
    /\ lookups' = lookups \o StdQueries
    /\ NextPossibleModule
    /\ UNCHANGED <<inputs, r, deps, hasFatalError, logged>>

\* lines 196-205, 217-226: nothing provides the candidate and imports are
\* not validated
NoMatch ==
    /\ InCandidate
    /\ ~OverrideFound
    /\ ~ThirdPartyFound
    /\ Len(matches) = 0
    /\ isStdModule([Name |-> stdModuleName]) = "notstd"
    /\ ~cfg.validateImportStatements
    /\ lookups' = lookups \o StdQueries
    /\ NextPossibleModule
    /\ UNCHANGED <<inputs, r, errs, deps, hasFatalError, logged>>

\* lines 217-222: one of the matches is the rule itself
SelfImport ==
    /\ InCandidate
    /\ ~OverrideFound
    /\ ~ThirdPartyFound
    /\ \E i \in DOMAIN matches : IsSelfImport(matches[i], from)
    /\ lookups' = lookups \o IndexQueries
    /\ ContinueModulesLoop
    /\ UNCHANGED <<inputs, r, deps, hasFatalError, logged>>

\* lines 228-242: several matches, and not exactly one of them under the
\* project root
MultipleTargets ==
    /\ InCandidate
    /\ ~OverrideFound
    /\ ~ThirdPartyFound
    /\ \A i \in DOMAIN matches : ~IsSelfImport(matches[i], from)
    /\ Len(matches) > 1
    /\ Len(sameRootMatches(matches)) # 1
    /\ errs' = Append(errs, multipleTargetsError(matches))
    /\ lookups' = lookups \o IndexQueries
    /\ NextPossibleModule
    /\ UNCHANGED <<inputs, r, deps, hasFatalError, logged>>

\* lines 228-235, 243-254: the match that is left is the dependency
filteredMatch ==
    IF Len(matches) > 1 THEN sameRootMatches(matches)[1] ELSE matches[1]

IndexDep ==
    /\ InCandidate
    /\ ~OverrideFound
    /\ ~ThirdPartyFound
    /\ \A i \in DOMAIN matches : ~IsSelfImport(matches[i], from)
    /\ Len(matches) > 0
    /\ (Len(matches) > 1 => Len(sameRootMatches(matches)) = 1)
    /\ deps' = TreeSetAdd(deps, LabelString(LabelRel(filteredMatch, from.Repo, from.Pkg)))
    /\ lookups' = lookups \o IndexQueries
    /\ ContinueModulesLoop
    /\ UNCHANGED <<inputs, r, hasFatalError, logged>>

\* the errors logged without failing the pass
EndPossibleModulesNotFatal ==
    /\ pc = "candidate"
    /\ ci > Len(possibleModules)
    /\ logged' = IF Len(errs) > 0
                 THEN Append(logged, [kind |-> "validate", errs |-> errs])
                 ELSE logged
    /\ pc' = "modules"
    /\ UNCHANGED <<inputs, r, it, mod, possibleModules, ci, errs, deps, hasFatalError, lookups>>

\* lines 257-266: no candidate ended the module
EndPossibleModules ==
    /\ pc = "candidate"
    /\ ci > Len(possibleModules)
    /\ logged' = IF Len(errs) > 0
                 THEN Append(logged, [kind |-> "validate", errs |-> errs])
                 ELSE logged
    /\ hasFatalError' = (hasFatalError \/ Len(errs) > 0)
    /\ pc' = "modules"
    /\ UNCHANGED <<inputs, r, it, mod, possibleModules, ci, errs, deps, lookups>>

ModulesDone == ~modulesRaw.present \/ it = Len(modulesRaw.set)

\* lines 268-270: os.Exit(1)
Exit ==
    /\ pc = "modules"
    /\ ModulesDone
    /\ hasFatalError
    /\ pc' = "exited"
    /\ UNCHANGED <<inputs, r, it, mod, possibleModules, ci, errs, deps, hasFatalError,
                   lookups, logged>>

\* the deps attribute is written whatever the set holds
SetDepsAlways ==
    /\ pc = "modules"
    /\ ModulesDone
    /\ ~hasFatalError
    /\ deps' = TreeSetAddAll(deps, r.resolvedDeps)
    /\ r' = [r EXCEPT !.hasDeps = TRUE, !.deps = convertDependencySetToExpr(deps')]
    /\ pc' = "done"
    /\ UNCHANGED <<inputs, it, mod, possibleModules, ci, errs, hasFatalError, lookups, logged>>

\* lines 272-281: the resolved deps join the set, which becomes the deps
\* attribute unless it is empty
SetDeps ==
    /\ pc = "modules"
    /\ ModulesDone
    /\ ~hasFatalError
    /\ deps' = TreeSetAddAll(deps, r.resolvedDeps)
    /\ r' = IF deps' # <<>>
            THEN [r EXCEPT !.hasDeps = TRUE, !.deps = convertDependencySetToExpr(deps')]
            ELSE r
    /\ pc' = "done"
    /\ UNCHANGED <<inputs, it, mod, possibleModules, ci, errs, hasFatalError, lookups, logged>>

Next ==
    \/ NextModule
    \/ OverrideDep
    \/ OverrideSelf
    \/ ThirdPartyDep
    \/ StdModuleError
    \/ StdModule
    \/ InvalidDependency
    \/ NoMatch
    \/ SelfImport
    \/ MultipleTargets
    \/ IndexDep
    \/ EndPossibleModules
    \/ Exit
    \/ SetDeps

Spec == Init /\ [][Next]_vars

\* ------------------------------------------------- what the claims speak of

\* the pass is over
Finished == pc \in {"done", "exited"}

\* the names of the modules the iterator has yielded
Yielded == {modulesRaw.set[i].Name : i \in 1..it}

\* the module's candidates are over
Resolved(m) == m \in Yielded /\ ~(pc = "candidate" /\ mod.Name = m)

\* the dotted name m without its last k - 1 components
NumParts(m) == Len(Split(m, "."))
Shortened(m, k) == Join(SubSeq(Split(m, "."), 1, NumParts(m) - (k - 1)), <<".">>)

\* the candidates of import m that were tried, in the order they were tried:
\* every candidate is first looked up among the overrides
Tried(m) ==
    LET qs == SelectSeq(lookups, LAMBDA q : q.mod = m /\ q.kind = "override")
    IN  [i \in DOMAIN qs |-> qs[i].name]

\* the strings that denote the rule itself: //a:t and :t
DenotesSelf(dep) ==
    \/ dep = LabelString(from)
    \/ dep = LabelString(LabelRel(from, from.Repo, from.Pkg))

\* what the collaborators hold for a string
HasOverride(n) == answers[n].override.ok
OverrideToSelf(n) == HasOverride(n) /\ answers[n].override.label = from
OverrideToOther(n) == HasOverride(n) /\ answers[n].override.label # from
NonSelfMatches(n) == SelectSeq(answers[n].matches, LAMBDA l : l # from)
HasSelfMatch(n) == \E i \in DOMAIN answers[n].matches : answers[n].matches[i] = from

\* package pkg is the project root or lies in a directory under it
UnderProjectRoot(pkg) ==
    \/ cfg.pythonProjectRoot = <<>>
    \/ pkg = cfg.pythonProjectRoot
    \/ HasPrefix(pkg, cfg.pythonProjectRoot \o <<"/">>)
MatchesUnderRoot(n) == SelectSeq(NonSelfMatches(n), LAMBDA l : UnderProjectRoot(l.Pkg))

\* the dependency written for a label of the rule's own repository
DepString(l) ==
    IF l.Pkg = from.Pkg THEN <<":">> \o l.Name
    ELSE <<"/", "/">> \o l.Pkg \o <<":">> \o l.Name

\* ------------------------------------------------------------------ claims

\* C1 (as claimed): the deps attribute Resolve writes never holds a label
\* that denotes the rule itself, whatever the source of the label.
C1_NoSelfDependency ==
    r.hasDeps => \A i \in DOMAIN r.deps : ~DenotesSelf(r.deps[i].Value)

\* C2: a candidate with an override to another rule is looked up among the
\* overrides only (never in the manifest, the index or the classifier), the
\* override's label is its import's dependency, and nothing more is looked
\* up for that import.
C2_OverrideWins ==
    \A i \in DOMAIN lookups :
        OverrideToOther(lookups[i].name) =>
            /\ lookups[i].kind = "override"
            /\ \E j \in DOMAIN deps : deps[j] = DepString(answers[lookups[i].name].override.label)
            /\ \A j \in (i + 1)..Len(lookups) : lookups[j].mod # lookups[i].mod

\* C2: an override was accepted for a string that the manifest maps and the
\* index matches too.
C2_Witness ==
    \E i \in DOMAIN lookups :
        /\ OverrideToOther(lookups[i].name)
        /\ answers[lookups[i].name].thirdParty.ok
        /\ answers[lookups[i].name].matches # <<>>
        /\ Finished

\* a candidate ends its import: it gives a dependency, or is of the standard
\* library, or is provided by the rule itself
GivesDependency(n) ==
    \/ OverrideToOther(n)
    \/ ~HasOverride(n) /\ answers[n].thirdParty.ok
    \/ /\ ~HasOverride(n)
       /\ ~answers[n].thirdParty.ok
       /\ ~HasSelfMatch(n)
       /\ \/ Len(answers[n].matches) = 1
          \/ /\ Len(answers[n].matches) > 1
             /\ Cardinality({i \in DOMAIN answers[n].matches :
                    HasPrefix(answers[n].matches[i].Pkg, cfg.pythonProjectRoot)}) = 1
NeedsNoDependency(n) ==
    /\ ~HasOverride(n)
    /\ ~answers[n].thirdParty.ok
    /\ \/ HasSelfMatch(n)
       \/ answers[n].matches = <<>> /\ answers[n].std = "std"
EndsImport(n) == GivesDependency(n) \/ NeedsNoDependency(n)

\* C3: the candidates tried for an import of N components are the name
\* shortened by 0, 1, 2, ... components, in that order and at most N of
\* them; none is tried after one that resolved, and all N are tried when
\* none resolved.
C3_FallbackOrder ==
    \A m \in Yielded :
        LET tried == Tried(m)
        IN  /\ Len(tried) <= NumParts(m)
            /\ \A k \in DOMAIN tried : tried[k] = Shortened(m, k)
            /\ \A k \in 1..(Len(tried) - 1) : ~EndsImport(tried[k])
            /\ Resolved(m) =>
                   /\ Len(tried) >= 1
                   /\ Len(tried) < NumParts(m) => EndsImport(tried[Len(tried)])

\* C3: an import of more than one component resolved at a shortened candidate.
C3_Witness ==
    \E m \in Yielded :
        /\ Resolved(m)
        /\ NumParts(m) > 1
        /\ Len(Tried(m)) = NumParts(m)
        /\ EndsImport(Tried(m)[NumParts(m)])

\* C4 (as claimed): after a candidate whose override is the rule itself,
\* nothing more is looked up for that import.
C4_SelfOverrideStopsImport ==
    \A i \in DOMAIN lookups :
        OverrideToSelf(lookups[i].name) =>
            \A j \in (i + 1)..Len(lookups) : lookups[j].mod # lookups[i].mod

\* C5 (as claimed): the classifier is asked about the import's full name
\* only, and only after all the candidates of the import were tried.
C5_ClassifierAfterFallback ==
    \A i \in DOMAIN lookups :
        lookups[i].kind = "std" =>
            /\ lookups[i].name = lookups[i].mod
            /\ Len(Tried(lookups[i].mod)) = NumParts(lookups[i].mod)

\* C5 (amended): the classifier is asked about a candidate at the moment
\* that candidate is tried, right after the index had no match for it, and
\* about that candidate's own name; and every candidate without override,
\* mapping and match is asked about.
C5_ClassifierPerCandidate ==
    /\ \A i \in DOMAIN lookups :
           lookups[i].kind = "std" =>
               /\ i > 1
               /\ lookups[i - 1].kind = "index"
               /\ lookups[i - 1].name = lookups[i].name
               /\ lookups[i - 1].mod = lookups[i].mod
               /\ answers[lookups[i].name].matches = <<>>
    /\ \A i \in DOMAIN lookups :
           (lookups[i].kind = "index" /\ answers[lookups[i].name].matches = <<>>) =>
               /\ i < Len(lookups)
               /\ lookups[i + 1].kind = "std"
               /\ lookups[i + 1].name = lookups[i].name

\* C5: the classifier was asked about a shortened candidate.
C5_Witness ==
    \E i \in DOMAIN lookups :
        /\ lookups[i].kind = "std"
        /\ lookups[i].name # lookups[i].mod

\* the errors recorded in the log for candidate n
LoggedErrors(n) ==
    {e \in UNION {Range(logged[i].errs) : i \in DOMAIN logged} : e.moduleName = n}

\* C6 (as claimed): a candidate with several matches, none of them the rule
\* itself, of which none or more than one lies under the project root, makes
\* the pass fail with an error that names all of them.
C6_AmbiguityFails ==
    Finished =>
        \A i \in DOMAIN lookups :
            LET n == lookups[i].name
            IN  (/\ lookups[i].kind = "index"
                 /\ ~HasSelfMatch(n)
                 /\ Len(NonSelfMatches(n)) > 1
                 /\ Len(MatchesUnderRoot(n)) # 1) =>
                    /\ pc = "exited"
                    /\ \E e \in LoggedErrors(n) :
                           /\ e.kind = "multiple"
                           /\ e.targets = targetListFromResults(NonSelfMatches(n))

\* C7 (as claimed): a candidate with several matches, none of them the rule
\* itself, exactly one of which lies under the project root, has that match
\* as its dependency and records no error.
C7_ProjectRootDisambiguates ==
    \A i \in DOMAIN lookups :
        LET n == lookups[i].name
        IN  (/\ lookups[i].kind = "index"
             /\ ~HasSelfMatch(n)
             /\ Len(NonSelfMatches(n)) > 1
             /\ Len(MatchesUnderRoot(n)) = 1) =>
                /\ \E j \in DOMAIN deps : deps[j] = DepString(MatchesUnderRoot(n)[1])
                /\ \A e \in Range(errs) \cup LoggedErrors(n) : e.moduleName # n

\* string a sorts before string b
Before(a, b) ==
    \E k \in 1..(Len(b)) :
        /\ \A j \in 1..(k - 1) : j <= Len(a) /\ a[j] = b[j]
        /\ \/ k = Len(a) + 1
           \/ k <= Len(a) /\ Ord(a[k]) < Ord(b[k])

\* the dependency of a candidate that gives one
CandidateDep(n) ==
    IF HasOverride(n) THEN DepString(answers[n].override.label)
    ELSE IF answers[n].thirdParty.ok THEN answers[n].thirdParty.dep
    ELSE IF Len(answers[n].matches) = 1 THEN DepString(answers[n].matches[1])
    ELSE DepString(answers[n].matches[
             CHOOSE i \in DOMAIN answers[n].matches :
                 HasPrefix(answers[n].matches[i].Pkg, cfg.pythonProjectRoot)])

\* the first candidate of m that ends the import, 0 if none does
FirstEnd(m) ==
    IF \E k \in 1..NumParts(m) : EndsImport(Shortened(m, k))
    THEN CHOOSE k \in 1..NumParts(m) :
             /\ EndsImport(Shortened(m, k))
             /\ \A j \in 1..(k - 1) : ~EndsImport(Shortened(m, j))
    ELSE 0

\* the dependencies of a set of imported names
ImportDeps(names) ==
    {CandidateDep(Shortened(m, FirstEnd(m))) :
        m \in {n \in names : FirstEnd(n) > 0 /\ GivesDependency(Shortened(n, FirstEnd(n)))}}

\* C8: the deps list written is strictly increasing in byte order (sorted,
\* no string twice), and its strings are those the set of imported names
\* and the resolved deps give, in whatever order the imports were found.
C8_SortedDuplicateFree ==
    r.hasDeps =>
        /\ \A i \in DOMAIN r.deps : \A j \in DOMAIN r.deps :
               i < j => Before(r.deps[i].Value, r.deps[j].Value)
        /\ {r.deps[i].Value : i \in DOMAIN r.deps}
               = ImportDeps(Range(found)) \cup Range(r.resolvedDeps)

\* C8: two imports, found in the reverse of their sorted order, gave one and
\* the same label, which was a resolved dep too.
C8_Witness ==
    /\ pc = "done"
    /\ Len(found) = 2
    /\ StringComparator(found[1], found[2]) > 0
    /\ Cardinality(ImportDeps({found[1]})) = 1
    /\ ImportDeps({found[1]}) = ImportDeps({found[2]})
    /\ ImportDeps({found[1]}) \subseteq Range(r.resolvedDeps)
    /\ Len(r.deps) = Len(r.resolvedDeps)

\* a candidate for which an error is recorded
ErrorCandidate(n) ==
    /\ ~HasOverride(n)
    /\ ~answers[n].thirdParty.ok
    /\ \/ answers[n].matches = <<>> /\ answers[n].std = "notstd" /\ cfg.validateImportStatements
       \/ /\ ~HasSelfMatch(n)
          /\ Len(answers[n].matches) > 1
          /\ ~GivesDependency(n)

\* an import that ends with an unresolved-import or ambiguous-import error
FailedImport(m) ==
    /\ FirstEnd(m) = 0
    /\ \E k \in 1..NumParts(m) : ErrorCandidate(Shortened(m, k))

LineOf(m) == CHOOSE i \in DOMAIN found : found[i] = m

\* C9: an import that ended in error marks the pass failed and its errors
\* are logged; a pass so marked never writes the deps attribute and can only
\* end by exiting, which it does after it has tried every import.
C9_ErrorsFailTarget ==
    /\ \A m \in Range(found) :
           (Resolved(m) /\ FailedImport(m)) =>
               /\ hasFatalError
               /\ \E i \in DOMAIN logged :
                      /\ logged[i].kind = "validate"
                      /\ logged[i].errs # <<>>
                      /\ \A e \in Range(logged[i].errs) : e.line = LineOf(m)
    /\ hasFatalError => ~r.hasDeps /\ pc # "done"
    /\ Finished => \A m \in Range(found) : Resolved(m) /\ Len(Tried(m)) >= 1
    /\ (Finished /\ \E m \in Range(found) : FailedImport(m)) => pc = "exited"

\* C9: the first import failed, the second was tried and failed too, and the
\* pass exited without a deps attribute.
C9_Witness ==
    /\ pc = "exited"
    /\ Len(found) = 2
    /\ \A m \in Range(found) : FailedImport(m)
    /\ Len(logged) = 2
    /\ ~r.hasDeps

\* the classifier is asked about candidate n and fails
ClassifierFails(n) ==
    /\ ~HasOverride(n)
    /\ ~answers[n].thirdParty.ok
    /\ answers[n].matches = <<>>
    /\ answers[n].std = "error"

\* the number of candidates of m that are tried
FirstEndOrAll(m) == IF FirstEnd(m) = 0 THEN NumParts(m) ELSE FirstEnd(m)

\* the lookups at which the classifier failed
ClassifierFailures ==
    {i \in DOMAIN lookups : lookups[i].kind = "std" /\ answers[lookups[i].name].std = "error"}

\* C10 (as claimed): nothing is looked up after the classifier has failed.
C10_ClassifierFailureStopsPass ==
    \A i \in ClassifierFailures : i = Len(lookups)

\* C10 (amended): once the classifier has failed the pass is marked failed,
\* no error is recorded for the candidate among the import's errors, the
\* deps attribute is never written, and the pass ends by exiting, after the
\* remaining candidates and imports were tried.
C10_ClassifierFailureIsFatal ==
    /\ ClassifierFailures # {} =>
           /\ hasFatalError
           /\ ~r.hasDeps
           /\ pc # "done"
           /\ \A i \in ClassifierFailures :
                  /\ \A e \in Range(errs) : e.moduleName # lookups[i].name
                  /\ LoggedErrors(lookups[i].name) = {}
                  /\ \E j \in DOMAIN logged : logged[j].kind = "std"
    /\ Finished => \A m \in Range(found) : Resolved(m) /\ Len(Tried(m)) >= 1
    /\ (Finished /\ \E m \in Range(found) :
            \E k \in 1..NumParts(m) : k <= FirstEndOrAll(m) /\ ClassifierFails(Shortened(m, k))) =>
           pc = "exited"

\* C10: the classifier failed, more was looked up afterwards, and the pass
\* exited with nothing but the classifier's failure in the log.
C10_Witness ==
    /\ pc = "exited"
    /\ \E i \in ClassifierFailures : i < Len(lookups)
    /\ \A j \in DOMAIN logged : logged[j].kind = "std"
    /\ deps # <<>>

\* the union of the newly resolved dependencies and the pre-known ones
FinalSet == ImportDeps(Range(found)) \cup Range(r.resolvedDeps)

\* C11: when the pass has succeeded the set holds the union of the newly
\* resolved dependencies and the resolved deps the rule came with; the deps
\* attribute is written if and only if that union is not empty, with the
\* members of the union as its values; with an empty union the rule is as it
\* was before the pass, without a deps attribute and without an empty list.
C11_DepsWrittenIffNonEmpty ==
    pc = "done" =>
        LET final == FinalSet
        IN  /\ Range(deps) = final
            /\ r.hasDeps <=> final # {}
            /\ r.hasDeps => {r.deps[i].Value : i \in DOMAIN r.deps} = final
            /\ final = {} => r.deps = <<>>
            /\ ~modulesRaw.present => final = Range(r.resolvedDeps)

\* C11: the pass succeeded on a rule whose imports gave no dependency and
\* which came without resolved deps, and the rule has no deps attribute.
C11_Witness ==
    /\ pc = "done"
    /\ Len(found) >= 1
    /\ FinalSet = {}
    /\ ~r.hasDeps

\* C12 (as claimed): the matches that are the rule itself are dropped, and
\* the matches that are left go on to the choice among several: when one is
\* left, or several of which exactly one has the project root as prefix,
\* that match is in the set of dependencies.
C12_SelfMatchesFiltered ==
    \A i \in DOMAIN lookups :
        LET n == lookups[i].name
            left == NonSelfMatches(n)
        IN  (/\ lookups[i].kind = "index"
             /\ HasSelfMatch(n)
             /\ \/ Len(left) = 1
                \/ Len(left) > 1 /\ Len(sameRootMatches(left)) = 1) =>
                \E j \in DOMAIN deps :
                    deps[j] = DepString(IF Len(left) = 1 THEN left[1]
                                        ELSE sameRootMatches(left)[1])

\* nothing knows candidate n: no override, no third-party mapping, no match
\* in the index, and not of the standard library
UnknownCandidate(n) ==
    /\ ~HasOverride(n)
    /\ ~answers[n].thirdParty.ok
    /\ answers[n].matches = <<>>
    /\ answers[n].std = "notstd"

\* nothing knows any candidate of import m
UnknownImport(m) == \A k \in 1..NumParts(m) : UnknownCandidate(Shortened(m, k))

\* the unresolved-import error of the k-th candidate of import m
UnresolvedImportError(m, k) ==
    [kind |-> "invalid", moduleName |-> Shortened(m, k), line |-> LineOf(m),
     file |-> <<"t">>, targets |-> <<>>]

\* the errors recorded or logged for the import statement of m
ErrorsOfImport(m) ==
    {e \in Range(errs) \cup UNION {Range(logged[i].errs) : i \in DOMAIN logged} :
        e.line = LineOf(m)}

\* C13: an import none of whose candidates has an override, a third-party
\* mapping or an index match, and all of whose candidates the classifier
\* reports as not of the standard library. With validation enabled the pass
\* is marked failed once the import is over, the log holds the import's
\* unresolved-import errors, the first of which carries the module name
\* (the others the shortened candidates), all with the file and the line of
\* the import, no deps attribute is written and the pass ends by exiting.
\* With validation disabled the import records no error, and a pass whose
\* imports are all such adds no dependency and ends in success with the
\* resolved deps alone.
C13_UnknownImport ==
    /\ \A m \in Range(found) :
           (Resolved(m) /\ UnknownImport(m)) =>
               IF cfg.validateImportStatements
               THEN /\ hasFatalError
                    /\ ~r.hasDeps
                    /\ pc # "done"
                    /\ \E i \in DOMAIN logged :
                           /\ logged[i].kind = "validate"
                           /\ logged[i].errs
                                  = [k \in 1..NumParts(m) |-> UnresolvedImportError(m, k)]
               ELSE ErrorsOfImport(m) = {}
    /\ (Finished /\ cfg.validateImportStatements /\ \E m \in Range(found) : UnknownImport(m)) =>
           pc = "exited"
    /\ (~cfg.validateImportStatements /\ \A m \in Range(found) : UnknownImport(m)) =>
           /\ ~hasFatalError
           /\ errs = <<>> /\ logged = <<>>
           /\ pc # "exited"
           /\ pc # "done" => deps = <<>>
           /\ pc = "done" => Range(deps) = Range(r.resolvedDeps)

\* C13: an import of several components that nothing knows was validated,
\* its errors are in the log and the pass exited.
C13_Witness ==
    /\ pc = "exited"
    /\ cfg.validateImportStatements
    /\ \E m \in Range(found) :
           /\ UnknownImport(m)
           /\ NumParts(m) > 1
           /\ \E i \in DOMAIN logged : Len(logged[i].errs) = NumParts(m)

====
